---- MODULE Spec2Model ----
\* A model of the goroutine manager of hoon-kr/log_manager
\* (pkg/utils/goroutine): GoroutineManager and the two wait primitives
\* WaitCancelWithTimeout and WaitGroupWithTimeout.
\*
\* Callers are client goroutines that invoke the six manager operations.
\* Every operation is cut at the points where another goroutine can
\* interleave: the call, mu.Lock(), the statements under the lock, the
\* blocking wait, and the deferred mu.Unlock().
\* Task bodies are goroutines launched by Start/StartAll. A body either
\* ignores its context forever ("stuck") or calls
\* WaitCancelWithTimeout(ctx, d) once and returns.
\*
\* Time is abstracted as follows. A timer of duration 0 (time.After(0)) has
\* expired as soon as it is created. A timer of positive duration expires only
\* while the awaited condition does not hold: a positive duration stands for
\* one that is long compared with the scheduling latency of a runnable
\* goroutine. A select with several ready cases picks any of them.
EXTENDS Integers, Sequences, FiniteSets, Bags, TLC

VARIABLES
    mu,         \* gm.mu: the caller that owns the mutex, or NoCaller
    parentWG,   \* gm.parentWG: its counter
    parentCtx,  \* gm.parentCtx: TRUE once its Done channel is closed
    tasks,      \* gm.tasks: name -> index of a taskWrapper in wrappers, or NoTask
    wrappers,   \* every taskWrapper allocated by AddTask, in allocation order;
                \* stopped is history: a Stop of it returned nil and it has
                \* not been launched since
    call,       \* per caller: the operation in progress and its locals
    bodies,     \* bag of the goroutines launched by Start/StartAll
    leaked,     \* watcher goroutines of WaitGroupWithTimeout left behind on
                \* timeout that still block in wg.Wait(): wait group -> count
    budget,     \* operations the callers may still invoke
    Conf,       \* the global Conf of the config package
    config      \* what parseConfig returned to the last LoadConfig

vars == <<mu, parentWG, parentCtx, tasks, wrappers, call, bodies, leaked, budget,
          Conf, config>>

\* ---------------------------------------------------------------- bounds

\* operations the callers invoke in a behaviour of Spec, DeepSpec, LiveSpec
MaxCalls == 3
MaxCallsDeep == 4
MaxCallsLive == 3
MaxCallsReentry == 3
MaxCallsNil == 3

\* ------------------------------------------------------------- constants

Callers == {"c1", "c2"}
NoCaller == "none"
Names == {"a", "b"}
NoTask == 0
\* wait group id of gm.parentWG in leaked (wrappers use their index)
ParentWGId == 0
\* a nil *sync.WaitGroup
NilWG == -1

\* time.Duration arguments: negative, zero, positive
Timeouts == {-1, 0, 1}

WaitSuccess == 0
WaitTimeout == 1
WaitInvalidParam == 2

\* The task functions the callers register. A "waitNeg" body calls
\* WaitCancelWithTimeout(ctx, -1) and returns (it runs until cancelled); a
\* "waitZero" body calls WaitCancelWithTimeout(ctx, 0) and returns (it
\* completes on its own); a "stuck" body ignores ctx and never returns.
Tasks == {"waitNeg", "waitZero", "stuck"}

\* A task function that calls back into the manager: a "reenter" body calls
\* gm.AddTask(ReenterName, f) with a "waitZero" f and returns. It is
\* registered in ReentrySpec only.
ReenterName == "b"
TaskTimeout(task) == IF task = "waitZero" THEN 0 ELSE -1

Ops == {"AddTask", "RemoveTask", "StartAll", "StopAll", "Start", "Stop"}

\* errors returned to the caller
ErrNil == "nil"
ErrNotExist == "task does not exist"
ErrTimeout == "not terminated within the specified timeout"

IdleCall ==
    [pc |-> "idle", op |-> "none", name |-> "none", timeout |-> 0,
     task |-> "none", t |-> NoTask, todo |-> {}, done |-> "none",
     fired |-> FALSE, zeroAtCall |-> FALSE, wres |-> WaitSuccess,
     err |-> ErrNil]

\* --------------------------------------------------------------- helpers

Handles == 1..Len(wrappers)

\* counter of the wait group a caller waits on
Counter(w) == IF w = ParentWGId THEN parentWG ELSE wrappers[w].childWG

\* the wait group an operation waits on: &gm.parentWG or &t.childWG
WaitTarget(c) == IF call[c].op = "StopAll" THEN ParentWGId ELSE call[c].t

Leak(w) == [leaked EXCEPT ![w] = @ + 1]

\* ---------------------------------------------------------------- config

\* the keys LoadConfig looks up
Keys == {"MaxLogFileSize", "MaxLogFileBackup", "MaxLogFileAge",
         "CompressBackupLogFile"}

\* func init(): the defaults
DefaultConf ==
    [MaxLogFileSize |-> 100, MaxLogFileBackup |-> 10, MaxLogFileAge |-> 90,
     CompBakLogFile |-> TRUE]

\* parseConfig failed: LoadConfig returns its error
ParseFailed == [error |-> <<"o", "p", "e", "n">>]

\* the empty map
NoSettings == [k \in {} |-> <<>>]

\* Strings are sequences of characters. The values a config line can give a
\* key (one field of strings.Fields, so without white space).
Values ==
    {<<"1">>, <<"5", "0">>, <<"0", "3", "6", "5">>, <<"+", "7">>,
     <<"1", "0", "0", "1">>, <<"0">>, <<"-", "5">>, <<"1", "2", "a">>, <<"-">>,
     <<"9", "9", "9", "9", "9", "9", "9", "9", "9", "9">>,
     <<"n", "o">>, <<"N", "o">>}

\* the maps parseConfig can return: any of the keys, each with a value
ConfigMaps == UNION {[D -> Values] : D \in SUBSET Keys}

Digits == {"0", "1", "2", "3", "4", "5", "6", "7", "8", "9"}

DigitVal(ch) ==
    CASE ch = "0" -> 0 [] ch = "1" -> 1 [] ch = "2" -> 2 [] ch = "3" -> 3
      [] ch = "4" -> 4 [] ch = "5" -> 5 [] ch = "6" -> 6 [] ch = "7" -> 7
      [] ch = "8" -> 8 [] ch = "9" -> 9

\* largest int of strconv.Atoi, for a build with 32-bit int
IntMax == 2147483647

\* the digits of s from position i on, added to acc; "range" once the value
\* no longer fits, "syntax" at a character that is not a digit
RECURSIVE ParseDigits(_, _, _)
ParseDigits(s, i, acc) ==
    IF i > Len(s) THEN [value |-> acc, err |-> "nil"]
    ELSE IF s[i] \notin Digits THEN [value |-> 0, err |-> "syntax"]
    ELSE IF acc > (IntMax - DigitVal(s[i])) \div 10
         THEN [value |-> IntMax, err |-> "range"]
    ELSE ParseDigits(s, i + 1, acc * 10 + DigitVal(s[i]))

\* strconv.Atoi(s): an optional sign and at least one decimal digit. A syntax
\* error comes with the value 0, a range error with the nearest int.
Atoi(s) ==
    LET signed == Len(s) > 0 /\ s[1] \in {"+", "-"}
        neg == Len(s) > 0 /\ s[1] = "-"
        first == IF signed THEN 2 ELSE 1
        r == ParseDigits(s, first, 0)
    IN  IF first > Len(s) THEN [value |-> 0, err |-> "syntax"]
        ELSE IF r.err = "range" /\ neg
             THEN [value |-> -IntMax - 1, err |-> "range"]
        ELSE IF neg THEN [r EXCEPT !.value = -r.value]
        ELSE r

\* strings.ToLower(s) == "no", for the characters of Values
ToLowerIsNo(s) ==
    /\ Len(s) = 2
    /\ s[1] \in {"n", "N"}
    /\ s[2] \in {"o", "O"}

\* one numeric setting of LoadConfig: the value stored when
\* `err != nil && value >= lo && value <= hi`, else the field as it was
Setting(m, key, lo, hi, old) ==
    IF key \in DOMAIN m
    THEN LET r == Atoi(m[key]) IN
         IF r.err # "nil" /\ r.value >= lo /\ r.value <= hi
         THEN r.value ELSE old
    ELSE old

\* LoadConfig(filePath): parseConfig fails and its error is returned, or it
\* returns the map m and the four settings are applied to Conf in turn. The
\* server calls it once, when it starts, with nothing loaded before.
LoadConfig ==
    /\ config = NoSettings
    /\ \/ /\ config' = ParseFailed
          /\ Conf' = Conf
       \/ \E m \in ConfigMaps :
            /\ config' = m
            /\ Conf' =
                 [MaxLogFileSize |->
                    Setting(m, "MaxLogFileSize", 1, 1000, Conf.MaxLogFileSize),
                  MaxLogFileBackup |->
                    Setting(m, "MaxLogFileBackup", 1, 100,
                            Conf.MaxLogFileBackup),
                  MaxLogFileAge |->
                    Setting(m, "MaxLogFileAge", 1, 365, Conf.MaxLogFileAge),
                  CompBakLogFile |->
                    IF "CompressBackupLogFile" \in DOMAIN m
                         /\ ToLowerIsNo(m["CompressBackupLogFile"])
                    THEN FALSE ELSE Conf.CompBakLogFile]
    /\ UNCHANGED <<mu, parentWG, parentCtx, tasks, wrappers, call, bodies,
                   leaked, budget>>

\* ------------------------------------------------------------------ Init

\* NewGoroutineManager
InitWith(n) ==
    /\ mu = NoCaller
    /\ parentWG = 0
    /\ parentCtx = FALSE
    /\ tasks = [n1 \in Names |-> NoTask]
    /\ wrappers = <<>>
    /\ call = [c \in Callers |-> IdleCall]
    /\ bodies = EmptyBag
    /\ leaked = [w \in {ParentWGId} |-> 0]
    /\ budget = n
    /\ Conf = DefaultConf
    /\ config = NoSettings

Init == InitWith(MaxCalls)

\* --------------------------------------------------------- the callers

\* the invocations of operation op: the operation with its arguments, the
\* caller in gm.mu.Lock()
Request(op, name, timeout, task) ==
    [IdleCall EXCEPT !.pc = "lock", !.op = op, !.name = name,
                     !.timeout = timeout, !.task = task]

Requests(op) ==
    CASE op = "AddTask" ->
           {Request(op, n, 0, f) : n \in Names, f \in Tasks}
      [] op \in {"RemoveTask", "Stop"} ->
           {Request(op, n, d, "none") : n \in Names, d \in Timeouts}
      [] op = "StopAll" ->
           {Request(op, "none", d, "none") : d \in Timeouts}
      [] op = "Start" ->
           {Request(op, n, 0, "none") : n \in Names}
      [] OTHER ->
           {Request(op, "none", 0, "none")}

\* A caller invokes an operation while another caller owns the mutex: it
\* blocks in gm.mu.Lock().
Block(c) ==
    /\ call[c].pc = "idle"
    /\ budget > 0
    /\ mu # NoCaller
    /\ \E op \in Ops : \E r \in Requests(op) :
         call' = [call EXCEPT ![c] = r]
    /\ budget' = budget - 1
    /\ UNCHANGED <<mu, parentWG, parentCtx, tasks, wrappers, bodies, leaked,
                   Conf, config>>

\* (variant) an operation that does not wait for the mutex to be free
LockUnchecked(c, r) ==
    /\ mu' = c
    /\ \/ /\ call[c].pc = "idle"
          /\ budget > 0
          /\ budget' = budget - 1
       \/ /\ call[c] = r
          /\ UNCHANGED budget

\* gm.mu.Lock() returns for invocation r of caller c: the mutex is free and
\* c either invokes r now or was blocked in it.
Lock(c, r) ==
    /\ mu = NoCaller
    /\ mu' = c
    /\ \/ /\ call[c].pc = "idle"
          /\ budget > 0
          /\ budget' = budget - 1
       \/ /\ call[c] = r
          /\ UNCHANGED budget

\* defer gm.mu.Unlock(), and the return to the caller; the locals of the
\* operation are gone
Unlock(c) ==
    /\ call[c].pc = "unlock"
    /\ mu' = NoCaller
    /\ call' = [call EXCEPT ![c] = IdleCall]
    /\ UNCHANGED <<parentWG, parentCtx, tasks, wrappers, bodies, leaked, budget,
                   Conf, config>>

\* The steps below that begin with Lock are mu.Lock() returning together
\* with the statements that follow it, up to the next point where the
\* operation blocks or touches a counter again.

\* (variant) context.WithCancel(context.Background()): a context of its own
WithCancelBackground(parent) == FALSE

\* context.WithCancel(gm.parentCtx): the child of a cancelled parent is
\* cancelled from the start
WithCancel(parent) == parent

\* (variant) the wrapper registered under the name before is cancelled
AddTaskStopsOld(c) ==
    \E r \in Requests("AddTask") :
        /\ Lock(c, r)
        /\ LET h == Len(wrappers) + 1
               old == IF tasks[r.name] = NoTask THEN wrappers
                      ELSE [wrappers EXCEPT ![tasks[r.name]].childCtx = TRUE]
           IN
            /\ wrappers' = Append(old,
                  [childWG |-> 0, childCtx |-> WithCancel(parentCtx),
                   task |-> r.task, stopped |-> FALSE])
            /\ tasks' = [tasks EXCEPT ![r.name] = h]
            /\ leaked' = leaked @@ (h :> 0)
        /\ call' = [call EXCEPT ![c] = [r EXCEPT !.pc = "unlock",
                                                 !.err = ErrNil]]
        /\ UNCHANGED <<parentWG, parentCtx, bodies, Conf, config>>

\* gm.tasks[name] = &taskWrapper{childCtx, childCancel, task}
Register(name, task) ==
    LET h == Len(wrappers) + 1 IN
        /\ wrappers' = Append(wrappers,
              [childWG |-> 0, childCtx |-> WithCancel(parentCtx),
               task |-> task, stopped |-> FALSE])
        /\ tasks' = [tasks EXCEPT ![name] = h]
        /\ leaked' = leaked @@ (h :> 0)

\* AddTask called with invocation r
AddTaskWith(c, r) ==
    /\ Lock(c, r)
    /\ Register(r.name, r.task)
    /\ call' = [call EXCEPT ![c] = [r EXCEPT !.pc = "unlock",
                                             !.err = ErrNil]]
    /\ UNCHANGED <<parentWG, parentCtx, bodies, Conf, config>>

AddTask(c) == \E r \in Requests("AddTask") : AddTaskWith(c, r)

\* (variant) a cancel function that is the parent's
ChildCancelAll(ws, h) == [i \in DOMAIN ws |-> [ws[i] EXCEPT !.childCtx = TRUE]]

\* t.childCancel(): closes the Done channel of wrapper h only
ChildCancel(ws, h) == [ws EXCEPT ![h].childCtx = TRUE]

\* (variant) only the contexts of the wrappers still in gm.tasks are closed
ParentCancelRegistered(ws) ==
    [h \in DOMAIN ws |->
        IF \E n \in Names : tasks[n] = h
        THEN [ws[h] EXCEPT !.childCtx = TRUE] ELSE ws[h]]

\* (variant) the parent's cancel does not reach the children
ParentCancelNone(ws) == ws

\* gm.parentCancel(): closes the Done channel of the parent and of every
\* context derived from it
ParentCancel(ws) == [h \in DOMAIN ws |-> [ws[h] EXCEPT !.childCtx = TRUE]]

\* (variant) done is closed without wg.Wait()
WaitGroupNoWait(r, counter) ==
    [r EXCEPT !.pc = "select", !.done = "closed",
              !.fired = (r.timeout = 0), !.zeroAtCall = (counter = 0)]

\* (variant) the negative-timeout branch left out: every timeout is timed
WaitGroupAlwaysTimed(r, counter) ==
    [r EXCEPT !.pc = "select", !.done = "open",
              !.fired = (r.timeout <= 0), !.zeroAtCall = (counter = 0)]

\* WaitGroupWithTimeout(wg, timeout) up to its blocking point, for a non-nil
\* wg: wg.Wait() for a negative timeout, else the watcher goroutine is
\* spawned, the timer created and the select entered.
WaitGroupWithTimeout(r, counter) ==
    IF r.timeout < 0
    THEN [r EXCEPT !.pc = "wgwait", !.zeroAtCall = (counter = 0)]
    ELSE [r EXCEPT !.pc = "select", !.done = "open",
                   !.fired = (r.timeout = 0), !.zeroAtCall = (counter = 0)]

\* (variant) a nil wg reported as success
WaitGroupEntryNilSuccess(wg, r, counter) ==
    IF wg = NilWG
    THEN [r EXCEPT !.pc = "wgret", !.wres = WaitSuccess]
    ELSE WaitGroupWithTimeout(r, counter)

\* WaitGroupWithTimeout(wg, timeout) from its first line: a nil wg returns
\* WaitInvalidParam at once, before anything is created
WaitGroupEntry(wg, r, counter) ==
    IF wg = NilWG
    THEN [r EXCEPT !.pc = "wgret", !.wres = WaitInvalidParam]
    ELSE WaitGroupWithTimeout(r, counter)

\* (variant) a lookup miss reported as an error, as Start does
StopErrNotExist(exists, wres) ==
    IF ~exists THEN ErrNotExist
    ELSE IF wres # WaitSuccess THEN ErrTimeout ELSE ErrNil

\* The error Stop and RemoveTask return: exists is the result of the
\* registry lookup, wres the result of the wait
StopErr(exists, wres) ==
    IF exists /\ wres # WaitSuccess THEN ErrTimeout ELSE ErrNil

\* Stop and RemoveTask up to the wait: lookup, childCancel, wait entry
StopOrRemove(c, r) ==
    /\ Lock(c, r)
    /\ LET h == tasks[r.name] IN
        IF h = NoTask
        THEN /\ call' = [call EXCEPT ![c] =
                  [r EXCEPT !.pc = "unlock",
                            !.err = StopErr(FALSE, WaitSuccess)]]
             /\ UNCHANGED wrappers
        ELSE /\ wrappers' = ChildCancel(wrappers, h)
             /\ call' = [call EXCEPT ![c] =
                  WaitGroupEntry(h, [r EXCEPT !.t = h],
                                 wrappers[h].childWG)]
    /\ UNCHANGED <<parentWG, parentCtx, tasks, bodies, leaked, Conf, config>>

Stop(c) == \E r \in Requests("Stop") : StopOrRemove(c, r)

RemoveTask(c) == \E r \in Requests("RemoveTask") : StopOrRemove(c, r)

\* StopAll up to the wait: parentCancel, wait entry
StopAll(c) ==
    \E r \in Requests("StopAll") :
        /\ Lock(c, r)
        /\ parentCtx' = TRUE
        /\ wrappers' = ParentCancel(wrappers)
        /\ call' = [call EXCEPT ![c] =
              WaitGroupEntry(ParentWGId, r, parentWG)]
        /\ UNCHANGED <<parentWG, tasks, bodies, leaked, Conf, config>>

\* (variant) the entry is deleted whatever the operation and the result
AfterWaitDeletes(c, wres) ==
    /\ call' = [call EXCEPT ![c].pc = "unlock", ![c].wres = wres,
                            ![c].err = StopErr(TRUE, wres)]
    /\ tasks' = IF call[c].name \in Names
                THEN [tasks EXCEPT ![call[c].name] = NoTask]
                ELSE [n \in Names |-> NoTask]
    /\ UNCHANGED wrappers

\* What Stop, StopAll and RemoveTask do once WaitGroupWithTimeout returned
\* wres: the error, and RemoveTask's delete(gm.tasks, name) on success (and
\* the history of a Stop that succeeds)
AfterWait(c, wres) ==
    /\ call' = [call EXCEPT ![c].pc = "unlock", ![c].wres = wres,
                            ![c].err = StopErr(TRUE, wres)]
    /\ tasks' = IF call[c].op = "RemoveTask" /\ wres = WaitSuccess
                THEN [tasks EXCEPT ![call[c].name] = NoTask]
                ELSE tasks
    /\ wrappers' = IF call[c].op = "Stop" /\ wres = WaitSuccess
                   THEN [wrappers EXCEPT ![call[c].t].stopped = TRUE]
                   ELSE wrappers

\* wg.Wait() of the negative-timeout branch returns
WgWaitReturn(c) ==
    /\ call[c].pc = "wgwait"
    /\ Counter(WaitTarget(c)) = 0
    /\ AfterWait(c, WaitSuccess)
    /\ UNCHANGED <<mu, parentWG, parentCtx, bodies, leaked, budget,
                   Conf, config>>

\* the watcher goroutine of a caller still in the select: wg.Wait() returns
\* and the deferred close(done) runs
WatcherClose(c) ==
    /\ call[c].pc = "select"
    /\ call[c].done = "open"
    /\ Counter(WaitTarget(c)) = 0
    /\ call' = [call EXCEPT ![c].done = "closed"]
    /\ UNCHANGED <<mu, parentWG, parentCtx, tasks, wrappers, bodies, leaked, budget,
                   Conf, config>>

\* the timer of a positive timeout expires
TimerFire(c) ==
    /\ call[c].pc = "select"
    /\ ~call[c].fired
    /\ Counter(WaitTarget(c)) # 0
    /\ call' = [call EXCEPT ![c].fired = TRUE]
    /\ UNCHANGED <<mu, parentWG, parentCtx, tasks, wrappers, bodies, leaked, budget,
                   Conf, config>>

\* case <-done
SelectDone(c) ==
    /\ call[c].pc = "select"
    /\ call[c].done = "closed"
    /\ AfterWait(c, WaitSuccess)
    /\ UNCHANGED <<mu, parentWG, parentCtx, bodies, leaked, budget,
                   Conf, config>>

\* case <-time.After(timeout); a watcher that has not closed done yet is
\* left behind
SelectTimeout(c) ==
    /\ call[c].pc = "select"
    /\ call[c].fired
    /\ AfterWait(c, WaitTimeout)
    /\ leaked' = IF call[c].done = "open" THEN Leak(WaitTarget(c)) ELSE leaked
    /\ UNCHANGED <<mu, parentWG, parentCtx, bodies, budget, Conf, config>>

\* (variant) a watcher that signals with `done <- struct{}{}` on the
\* unbuffered channel: once the caller has left the select there is no
\* receiver and the send never completes
WatcherExitSend(w) ==
    /\ leaked[w] > 0
    /\ Counter(w) = 0
    /\ FALSE
    /\ UNCHANGED vars

\* a watcher left behind: wg.Wait() returns, close(done), exit
WatcherExit(w) ==
    /\ leaked[w] > 0
    /\ Counter(w) = 0
    /\ leaked' = [leaked EXCEPT ![w] = @ - 1]
    /\ UNCHANGED <<mu, parentWG, parentCtx, tasks, wrappers, call, bodies, budget,
                   Conf, config>>

\* ------------------------------------------------------ Start / StartAll

\* the goroutine of `go func() {...}()`, not yet scheduled
NewBody(h) ==
    [t |-> h, pc |-> "spawned", fired |-> FALSE, doneAtCall |-> FALSE,
     wres |-> WaitSuccess]

\* (variant) a closure that captures the loop variable instead of taking the
\* wrapper as its argument: it runs with the wrapper allocated last
SpawnLast(h) == bodies (+) SetToBag({NewBody(Len(wrappers))})

Spawn(h) == bodies (+) SetToBag({NewBody(h)})

\* (variant) the existence check left out
StartErrUnchecked(exists) == ErrNil

\* The error Start returns for the result of the registry lookup
StartErr(exists) == IF exists THEN ErrNil ELSE ErrNotExist

\* (variant) a Start that refuses a wrapper whose context is cancelled
StartIfLive(c) ==
    \E r \in Requests("Start") :
        /\ Lock(c, r)
        /\ LET h == tasks[r.name] IN
            IF h = NoTask \/ wrappers[h].childCtx
            THEN /\ call' = [call EXCEPT ![c] =
                      [r EXCEPT !.pc = "unlock", !.err = ErrNotExist]]
                 /\ UNCHANGED parentWG
            ELSE /\ parentWG' = parentWG + 1
                 /\ call' = [call EXCEPT ![c] =
                      [r EXCEPT !.pc = "launch", !.t = h]]
        /\ UNCHANGED <<parentCtx, tasks, wrappers, bodies, leaked,
                       Conf, config>>

\* Start: the lookup, the early return, gm.parentWG.Add(1)
Start(c) ==
    \E r \in Requests("Start") :
        /\ Lock(c, r)
        /\ LET h == tasks[r.name] IN
            IF StartErr(h # NoTask) # ErrNil
            THEN /\ call' = [call EXCEPT ![c] =
                      [r EXCEPT !.pc = "unlock", !.err = StartErr(h # NoTask)]]
                 /\ UNCHANGED parentWG
            ELSE /\ parentWG' = parentWG + 1
                 /\ call' = [call EXCEPT ![c] =
                      [r EXCEPT !.pc = "launch", !.t = h]]
        /\ UNCHANGED <<parentCtx, tasks, wrappers, bodies, leaked,
                       Conf, config>>

\* StartAll: `for _, t := range gm.tasks` begins
StartAll(c) ==
    \E r \in Requests("StartAll") :
        /\ Lock(c, r)
        /\ LET todo == {n \in Names : tasks[n] # NoTask} IN
            call' = [call EXCEPT ![c] =
                [r EXCEPT !.pc = IF todo = {} THEN "unlock" ELSE "range",
                          !.todo = todo]]
        /\ UNCHANGED <<parentWG, parentCtx, tasks, wrappers, bodies, leaked,
                       Conf, config>>

\* StartAll: the next entry of the map in any order, gm.parentWG.Add(1)
Range(c) ==
    /\ call[c].pc = "range"
    /\ \E n \in call[c].todo :
        call' = [call EXCEPT ![c].pc = "launch", ![c].t = tasks[n],
                             ![c].todo = @ \ {n}]
    /\ parentWG' = parentWG + 1
    /\ UNCHANGED <<mu, parentCtx, tasks, wrappers, bodies, leaked, budget,
                   Conf, config>>

\* Start and StartAll: t.childWG.Add(1) and the go statement; Start then
\* returns nil, StartAll goes on with the loop
Launch(c) ==
    /\ call[c].pc = "launch"
    /\ wrappers' = [wrappers EXCEPT ![call[c].t].childWG = @ + 1,
                                    ![call[c].t].stopped = FALSE]
    /\ bodies' = Spawn(call[c].t)
    /\ call' = [call EXCEPT ![c].pc = IF call[c].todo = {} THEN "unlock"
                                      ELSE "range",
                            ![c].err = ErrNil]
    /\ UNCHANGED <<mu, parentWG, parentCtx, tasks, leaked, budget,
                   Conf, config>>

\* -------------------------------------------------------- the task bodies

Replace(b, nb) == (bodies (-) SetToBag({b})) (+) SetToBag({nb})

\* WaitCancelWithTimeout(ctx, timeout) up to its blocking point: <-ctx.Done()
\* for a negative timeout, else the timer is created and the select entered
WaitCancelWithTimeout(b, timeout, ctxDone) ==
    IF timeout < 0
    THEN [b EXCEPT !.pc = "ctxwait", !.doneAtCall = ctxDone]
    ELSE [b EXCEPT !.pc = "select", !.fired = (timeout = 0),
                   !.doneAtCall = ctxDone]

\* tw.task(tw.childCtx): the goroutine runs and calls the task function
BodyCall(b) ==
    /\ b.pc = "spawned"
    /\ LET task == wrappers[b.t].task IN
        bodies' = Replace(b,
            IF task = "stuck" THEN [b EXCEPT !.pc = "stuck"]
            ELSE IF task = "reenter" THEN [b EXCEPT !.pc = "locking"]
            ELSE WaitCancelWithTimeout(b, TaskTimeout(task),
                                       wrappers[b.t].childCtx))
    /\ UNCHANGED <<mu, parentWG, parentCtx, tasks, wrappers, call, leaked, budget,
                   Conf, config>>

\* (variant) the deferred function runs Done() on the wait group of the
\* wrapper allocated first
BodyReturnFirst(b, wres) ==
    /\ bodies' = Replace(b, [b EXCEPT !.pc = "deferred", !.wres = wres])
    /\ wrappers' = [wrappers EXCEPT ![1].childWG = @ - 1]
    /\ UNCHANGED <<mu, parentWG, parentCtx, tasks, call, leaked, budget,
                   Conf, config>>

\* the task function returns wres from WaitCancelWithTimeout and returns;
\* the deferred function runs tw.childWG.Done()
BodyReturn(b, wres) ==
    /\ bodies' = Replace(b, [b EXCEPT !.pc = "deferred", !.wres = wres])
    /\ wrappers' = [wrappers EXCEPT ![b.t].childWG = @ - 1]
    /\ UNCHANGED <<mu, parentWG, parentCtx, tasks, call, leaked, budget,
                   Conf, config>>

\* <-ctx.Done() of the negative-timeout branch returns
BodyCtxDone(b) ==
    /\ b.pc = "ctxwait"
    /\ wrappers[b.t].childCtx
    /\ BodyReturn(b, WaitSuccess)

\* case <-ctx.Done()
BodySelectDone(b) ==
    /\ b.pc = "select"
    /\ wrappers[b.t].childCtx
    /\ BodyReturn(b, WaitSuccess)

\* case <-time.After(timeout)
BodySelectTimeout(b) ==
    /\ b.pc = "select"
    /\ b.fired
    /\ BodyReturn(b, WaitTimeout)

\* (variant) the goroutine ends without gm.parentWG.Done()
BodyExitNoDone(b) ==
    /\ b.pc = "deferred"
    /\ bodies' = bodies (-) SetToBag({b})
    /\ UNCHANGED <<mu, parentWG, parentCtx, tasks, wrappers, call, leaked, budget,
                   Conf, config>>

\* the deferred function runs gm.parentWG.Done(); the goroutine ends
BodyExit(b) ==
    /\ b.pc = "deferred"
    /\ bodies' = bodies (-) SetToBag({b})
    /\ parentWG' = parentWG - 1
    /\ UNCHANGED <<mu, parentCtx, tasks, wrappers, call, leaked, budget,
                   Conf, config>>

\* ------------------------------------------------------------------ Next

Next ==
    \/ \E c \in Callers : Block(c)
    \/ \E c \in Callers : AddTask(c)
    \/ \E c \in Callers : RemoveTask(c)
    \/ \E c \in Callers : StartAll(c)
    \/ \E c \in Callers : StopAll(c)
    \/ \E c \in Callers : Start(c)
    \/ \E c \in Callers : Stop(c)
    \/ \E c \in Callers : Range(c)
    \/ \E c \in Callers : Launch(c)
    \/ \E c \in Callers : WgWaitReturn(c)
    \/ \E c \in Callers : WatcherClose(c)
    \/ \E c \in Callers : TimerFire(c)
    \/ \E c \in Callers : SelectDone(c)
    \/ \E c \in Callers : SelectTimeout(c)
    \/ \E c \in Callers : Unlock(c)
    \/ \E b \in BagToSet(bodies) : BodyCall(b)
    \/ \E b \in BagToSet(bodies) : BodyCtxDone(b)
    \/ \E b \in BagToSet(bodies) : BodySelectDone(b)
    \/ \E b \in BagToSet(bodies) : BodySelectTimeout(b)
    \/ \E b \in BagToSet(bodies) : BodyExit(b)
    \/ \E w \in DOMAIN leaked : WatcherExit(w)

Spec == Init /\ [][Next]_vars

\* the same system with one more invocation, for the cases that take four
DeepInit == InitWith(MaxCallsDeep)

DeepSpec == DeepInit /\ [][Next]_vars

\* Go schedules every runnable goroutine and fires every due timer: the
\* system does not stop while some step other than a new invocation is
\* possible. (Every behaviour has finitely many steps, so this is all the
\* fairness the scheduler provides here.)
Progress == Next /\ budget' = budget

LiveInit == InitWith(MaxCallsLive)

LiveSpec == LiveInit /\ [][Next]_vars /\ WF_vars(Progress)

\* ------------------------------ WaitGroupWithTimeout with a nil wait group

\* a caller outside the manager calls WaitGroupWithTimeout(nil, d)
WaitNil(c) ==
    /\ call[c].pc = "idle"
    /\ budget > 0
    /\ \E d \in Timeouts :
         call' = [call EXCEPT ![c] =
            WaitGroupEntry(NilWG,
                [Request("WaitGroupWithTimeout", "none", d, "none")
                    EXCEPT !.t = NilWG], 0)]
    /\ budget' = budget - 1
    /\ UNCHANGED <<mu, parentWG, parentCtx, tasks, wrappers, bodies, leaked,
                   Conf, config>>

\* the `return WaitInvalidParam` is back at the call site: a manager
\* operation goes on as after any result, another caller is done
WgReturn(c) ==
    /\ call[c].pc = "wgret"
    /\ IF call[c].op = "WaitGroupWithTimeout"
       THEN /\ call' = [call EXCEPT ![c] = IdleCall]
            /\ UNCHANGED <<tasks, wrappers>>
       ELSE AfterWait(c, call[c].wres)
    /\ UNCHANGED <<mu, parentWG, parentCtx, bodies, leaked, budget,
                   Conf, config>>

NilNext ==
    \/ Next
    \/ \E c \in Callers : WaitNil(c)
    \/ \E c \in Callers : WgReturn(c)

NilInit == InitWith(MaxCallsNil)

NilSpec == NilInit /\ [][NilNext]_vars

\* --------------------------------------- bodies that call the manager

\* AddTask(name, f) with an f that calls gm.AddTask
AddReentrant(c) ==
    \E n \in Names : AddTaskWith(c, Request("AddTask", n, 0, "reenter"))

\* the body's gm.AddTask(ReenterName, f): gm.mu.Lock() returns, the wrapper
\* is stored, the deferred gm.mu.Unlock() runs. While another goroutine owns
\* the mutex the body stays blocked in gm.mu.Lock().
BodyAddTask(b) ==
    /\ b.pc = "locking"
    /\ mu = NoCaller
    /\ Register(ReenterName, "waitZero")
    /\ bodies' = Replace(b, [b EXCEPT !.pc = "called"])
    /\ UNCHANGED <<mu, parentWG, parentCtx, call, budget, Conf, config>>

\* the task function returns after its call of gm.AddTask
BodyCalled(b) ==
    /\ b.pc = "called"
    /\ BodyReturn(b, WaitSuccess)

ReentryNext ==
    \/ Next
    \/ \E c \in Callers : AddReentrant(c)
    \/ \E b \in BagToSet(bodies) : BodyAddTask(b)
    \/ \E b \in BagToSet(bodies) : BodyCalled(b)

ReentryInit == InitWith(MaxCallsReentry)

ReentrySpec == ReentryInit /\ [][ReentryNext]_vars

\* ------------------------------------------------- the config package

\* the program only loads its configuration
ConfigNext == LoadConfig

ConfigInit == InitWith(0)

ConfigSpec == ConfigInit /\ [][ConfigNext]_vars

\* ---------------------------------------------------------------- claims

WaitOps == {"RemoveTask", "Stop", "StopAll"}

\* caller c is back in its operation after the wait, before the deferred
\* Unlock: what it returns is decided
Returning(c, op) == call[c].pc = "unlock" /\ call[c].op = op

\* caller c went through WaitGroupWithTimeout in the operation it returns from
Waited(c) ==
    /\ call[c].pc = "unlock"
    /\ \/ call[c].op = "StopAll"
       \/ call[c].op \in {"Stop", "RemoveTask"} /\ call[c].t # NoTask

\* C1 (as claimed): Stop(name, timeout) with a name that is not in the
\* registry returns a non-nil (NotFound) error.
C1_StopMissingIsError ==
    \A c \in Callers :
        Returning(c, "Stop") /\ tasks[call[c].name] = NoTask
            => call[c].err # ErrNil

\* C1 (amended): Stop(name, timeout) with a name that is not in the registry
\* returns nil, for every timeout, without having entered the wait.
C1_StopMissingIsNil ==
    \A c \in Callers :
        Returning(c, "Stop") /\ tasks[call[c].name] = NoTask
            => call[c].err = ErrNil /\ ~Waited(c)

C1_Witness ==
    \E c \in Callers :
        /\ Returning(c, "Stop")
        /\ tasks[call[c].name] = NoTask
        /\ call[c].timeout < 0
        /\ Len(wrappers) > 0

\* the step in which caller c takes the mutex for operation op
Enters(c, op) ==
    /\ call[c].pc \in {"idle", "lock"}
    /\ call'[c].pc \notin {"idle", "lock"}
    /\ call'[c].op = op

\* C2: Start(name) with a name that is not in the registry returns a non-nil
\* error and changes nothing: no body is launched, no counter, no wrapper and
\* no registry entry changes.
C2_StartMissing ==
    [][\A c \in Callers :
        Enters(c, "Start") /\ tasks[call'[c].name] = NoTask
            => /\ call'[c].pc = "unlock"
               /\ call'[c].err # ErrNil
               /\ UNCHANGED <<parentWG, parentCtx, tasks, wrappers, bodies,
                              leaked>>]_vars

C2_Witness ==
    \E c \in Callers :
        /\ Returning(c, "Start")
        /\ call[c].err = ErrNotExist
        /\ \E n \in Names : tasks[n] # NoTask

\* C3 (as claimed): no caller is blocked in WaitGroupWithTimeout while it owns
\* the manager's mutex.
C3_NoWaitUnderLock ==
    \A c \in Callers : call[c].pc \in {"wgwait", "select"} => mu # c

\* C9: Stop(A) and RemoveTask(A) cancel only A's scope. In every step of such
\* an operation every other wrapper (context and running count) and the
\* parent context are unchanged.
C9_CancelFrame ==
    [][\A c \in Callers :
        /\ call'[c] # call[c]
        /\ call'[c].op \in {"Stop", "RemoveTask"}
        => /\ parentCtx' = parentCtx
           /\ \A h \in Handles : h # call'[c].t => wrappers'[h] = wrappers[h]]_vars

C9_Witness ==
    \E c \in Callers :
        /\ call[c].op \in {"Stop", "RemoveTask"}
        /\ call[c].pc \in {"wgwait", "select"}
        /\ tasks["a"] = call[c].t
        /\ tasks["b"] \notin {NoTask, call[c].t}
        /\ wrappers[tasks["a"]].childCtx
        /\ wrappers[tasks["a"]].childWG > 0
        /\ ~wrappers[tasks["b"]].childCtx
        /\ wrappers[tasks["b"]].childWG > 0
        /\ ~parentCtx

\* C10: once the parent context is cancelled (StopAll), the context of every
\* wrapper ever created is cancelled, also of those overwritten in the
\* registry and of those created later; and no cancelled context is seen
\* uncancelled again.
C10_ParentCancelsAll ==
    /\ [](parentCtx => \A h \in Handles : wrappers[h].childCtx)
    /\ [][/\ parentCtx => parentCtx'
          /\ \A h \in Handles : wrappers[h].childCtx => wrappers'[h].childCtx]_vars

\* three invocations: AddTask(a), AddTask(a), StopAll; wrapper 1 was
\* overwritten and is cancelled
C10_Witness ==
    /\ parentCtx
    /\ budget = MaxCalls - 3
    /\ Len(wrappers) = 2
    /\ tasks["a"] = 2
    /\ tasks["b"] = NoTask
    /\ wrappers[1].childCtx

\* C4 (as claimed): a Stop, StopAll or RemoveTask invoked with a timeout >= 0
\* eventually returns to its caller, whatever the other callers and the task
\* bodies do. Every behaviour takes finitely many steps, so the call returns
\* in every fairly scheduled behaviour exactly if the system cannot come to
\* rest (no step but a new invocation possible) while the call is pending.
C4_BoundedCallReturns ==
    \A c \in Callers :
        (call[c].pc # "idle" /\ call[c].op \in WaitOps /\ call[c].timeout >= 0)
            => ENABLED Progress

\* no launched body ignores its context
NoStuckBody == \A b \in BagToSet(bodies) : wrappers[b.t].task # "stuck"

\* C5: StopAll(-1) never returns a timeout error and never returns before
\* parentWG is zero; and under fair scheduling an invoked StopAll(-1)
\* eventually returns nil when every launched body returns once its context
\* is cancelled (from any state without a body that ignores its context it
\* returns nil, unless such a body is launched first).
C5_StopAllUnbounded ==
    /\ [](\A c \in Callers :
            Returning(c, "StopAll") /\ call[c].timeout < 0
                => call[c].err = ErrNil /\ parentWG = 0)
    /\ \A c \in Callers :
         (call[c].op = "StopAll" /\ call[c].timeout < 0 /\ NoStuckBody)
            ~> (\/ Returning(c, "StopAll") /\ call[c].err = ErrNil
                \/ ~NoStuckBody)

\* StopAll(-1) returns nil after it had to wait for a running body
C5_Witness ==
    \E c \in Callers :
        /\ Returning(c, "StopAll")
        /\ call[c].timeout < 0
        /\ ~call[c].zeroAtCall
        /\ call[c].err = ErrNil

\* C6 (as claimed): StopAll(0) returns the timeout error exactly when some
\* body had not returned when StopAll started to wait, and nil exactly when
\* parentWG was zero then.
C6_StopAllZero ==
    \A c \in Callers :
        Returning(c, "StopAll") /\ call[c].timeout = 0
            => (call[c].err = ErrNil <=> call[c].zeroAtCall)

\* C7 (as claimed): with a timeout of zero the result of both primitives is
\* decided by the state at the call: WaitSuccess if the context was already
\* cancelled (the counter already zero), WaitTimeout otherwise.
C7_ZeroTimeoutChecksOnce ==
    /\ \A c \in Callers :
         Waited(c) /\ call[c].timeout = 0
            => (call[c].wres = WaitSuccess <=> call[c].zeroAtCall)
    /\ \A b \in BagToSet(bodies) :
         b.pc = "deferred" /\ wrappers[b.t].task = "waitZero"
            => (b.wres = WaitSuccess <=> b.doneAtCall)

\* C8: with a negative timeout neither primitive returns WaitTimeout;
\* WaitGroupWithTimeout has returned only with the counter at zero and
\* WaitCancelWithTimeout only with the context cancelled, and while that is
\* not so the caller stays blocked.
C8_NegativeNeverTimesOut ==
    /\ [](\A c \in Callers :
            Waited(c) /\ call[c].timeout < 0
                => call[c].wres = WaitSuccess /\ Counter(WaitTarget(c)) = 0)
    /\ [](\A b \in BagToSet(bodies) :
            b.pc = "deferred" /\ wrappers[b.t].task = "waitNeg"
                => b.wres = WaitSuccess /\ wrappers[b.t].childCtx)
    /\ [][\A c \in Callers :
            call[c].pc = "wgwait" /\ Counter(WaitTarget(c)) # 0
                => call'[c].pc = "wgwait"]_vars
    /\ [][\A b \in BagToSet(bodies) :
            b.pc = "ctxwait" /\ ~wrappers[b.t].childCtx
                => CopiesIn(b, bodies') >= CopiesIn(b, bodies)]_vars

\* a negative-timeout wait returned after the counter had been non-zero, and
\* a body returned from WaitCancelWithTimeout(ctx, -1)
C8_Witness ==
    /\ \E c \in Callers :
         Waited(c) /\ call[c].timeout < 0 /\ ~call[c].zeroAtCall
    /\ \E b \in BagToSet(bodies) :
         b.pc = "deferred" /\ wrappers[b.t].task = "waitNeg"

\* number of goroutines in bodies whose record is in S
RECURSIVE CountBodies(_)
CountBodies(S) ==
    IF S = {} THEN 0
    ELSE LET b == CHOOSE x \in S : TRUE IN
         CopiesIn(b, bodies) + CountBodies(S \ {b})

\* the bodies of wrapper h whose task function has not returned yet
Executing(h) == {b \in BagToSet(bodies) : b.t = h /\ b.pc # "deferred"}

\* the bodies between tw.childWG.Done() and gm.parentWG.Done()
Deferred == {b \in BagToSet(bodies) : b.pc = "deferred"}

\* the callers between gm.parentWG.Add(1) and t.childWG.Add(1)
Launching == {c \in Callers : call[c].pc = "launch"}

\* sum of childWG over the first n wrappers
RECURSIVE SumChildWG(_)
SumChildWG(n) ==
    IF n = 0 THEN 0 ELSE wrappers[n].childWG + SumChildWG(n - 1)

\* C11 as stated: in every reachable state parentWG equals the sum of
\* childWG over all handles and equals the number of bodies that have been
\* launched and have not yet returned.
C11_CountersEqual ==
    /\ parentWG = SumChildWG(Len(wrappers))
    /\ parentWG = CountBodies({b \in BagToSet(bodies) : b.pc # "deferred"})

\* C11 amended: each childWG equals the number of its handle's bodies that
\* have not returned; parentWG equals the sum of childWG plus the callers
\* between the two Add calls of a launch plus the bodies between their two
\* Done calls. So parentWG is never below the sum, and equals it when no
\* launch and no deferred function is in progress.
C11_CountersConsistent ==
    /\ \A h \in Handles : wrappers[h].childWG = CountBodies(Executing(h))
    /\ parentWG = SumChildWG(Len(wrappers)) + Cardinality(Launching)
                    + CountBodies(Deferred)

\* one body still executing, another of the same handle between its two
\* Done calls: parentWG is 2, the sum of childWG is 1
C11_Witness ==
    /\ parentWG = 2
    /\ SumChildWG(Len(wrappers)) = 1
    /\ Deferred # {}
    /\ \E h \in Handles : Executing(h) # {}

\* C12 as stated: RemoveTask on a registered name has cancelled the handle's
\* scope when it returns; if the handle's childWG was zero within the bound
\* (here: already at the call) the entry is deleted and nil returned; if the
\* wait timed out a non-nil error is returned and the name still maps to the
\* same handle.
C12_RemoveOutcome ==
    \A c \in Callers :
        Returning(c, "RemoveTask") /\ Waited(c) =>
            /\ wrappers[call[c].t].childCtx
            /\ call[c].zeroAtCall \/ call[c].wres = WaitSuccess
                 => call[c].err = ErrNil /\ tasks[call[c].name] = NoTask
            /\ call[c].wres # WaitSuccess
                 => call[c].err # ErrNil /\ tasks[call[c].name] = call[c].t

\* C13: RemoveTask(name, timeout) with a name that is not in the registry
\* (never added or already removed) returns nil, for every timeout, in one
\* step that changes no registry entry, no context, no counter and launches
\* and leaves behind nothing; so calling it again has the same effect.
C13_RemoveMissing ==
    [][\A c \in Callers :
        Enters(c, "RemoveTask") /\ tasks[call'[c].name] = NoTask
            => /\ call'[c].pc = "unlock"
               /\ call'[c].err = ErrNil
               /\ UNCHANGED <<parentWG, parentCtx, tasks, wrappers, bodies,
                              leaked>>]_vars

\* RemoveTask returns for a name that is not registered after a task had
\* been added and removed again, with a zero timeout
C13_Witness ==
    \E c \in Callers :
        /\ Returning(c, "RemoveTask")
        /\ ~Waited(c)
        /\ call[c].timeout = 0
        /\ call[c].err = ErrNil
        /\ Len(wrappers) > 0
        /\ \A n \in Names : tasks[n] = NoTask

\* caller c returns from Stop or StopAll after its wait timed out
TimedOut(c) ==
    /\ call[c].pc = "unlock"
    /\ call[c].op \in {"Stop", "StopAll"}
    /\ Waited(c)
    /\ call[c].wres = WaitTimeout

\* C14 as stated: when Stop or StopAll returns because its bound was
\* exceeded, the error is non-nil and the counter it waited on is still at
\* least 1 at the moment of return.
C14_TimeoutCountPositive ==
    \A c \in Callers :
        TimedOut(c) =>
            call[c].err # ErrNil /\ Counter(WaitTarget(c)) >= 1

\* C14 amended: when Stop or StopAll returns because its bound was exceeded
\* the error is the timeout error; no step of Stop or StopAll changes the
\* registry, ends or launches a body or changes a counter; at the return the
\* counter waited on is at least the number of bodies that ignore
\* cancellation (so still 1 for one such body started once), but it may be
\* zero when the bodies return as the timer expires.
C14_TimeoutLeavesAll ==
    /\ [](\A c \in Callers :
            TimedOut(c) =>
                /\ call[c].err = ErrTimeout
                /\ \A h \in Handles :
                     (WaitTarget(c) \in {ParentWGId, h}
                        /\ wrappers[h].task = "stuck")
                     => Counter(WaitTarget(c)) >= CountBodies(Executing(h)))
    /\ [][\A c \in Callers :
            call'[c] # call[c] /\ call'[c].op \in {"Stop", "StopAll"}
                => /\ UNCHANGED <<tasks, bodies, parentWG>>
                   /\ \A h \in Handles :
                        wrappers'[h].childWG = wrappers[h].childWG]_vars

\* Stop with a positive timeout returns the timeout error while a body that
\* ignores cancellation is still executing: childWG is still 1
C14_Witness ==
    \E c \in Callers :
        /\ TimedOut(c)
        /\ call[c].op = "Stop"
        /\ call[c].timeout > 0
        /\ wrappers[call[c].t].childWG = 1
        /\ \E b \in Executing(call[c].t) : b.pc = "stuck"
        /\ tasks[call[c].name] = call[c].t

\* C15: whenever StopAll returns nil, parentWG is zero at that moment: no
\* body launched through the manager, registered or overwritten, is still
\* executing or in its deferred function, and no launch is in progress.
C15_StopAllNilDrained ==
    \A c \in Callers :
        Returning(c, "StopAll") /\ call[c].err = ErrNil
            => /\ parentWG = 0
               /\ bodies = EmptyBag
               /\ Launching = {}
               /\ \A h \in Handles : wrappers[h].childWG = 0

\* StopAll with a positive timeout returns nil after bodies had been running
C15_Witness ==
    \E c \in Callers :
        /\ Returning(c, "StopAll")
        /\ call[c].err = ErrNil
        /\ call[c].timeout > 0
        /\ ~call[c].zeroAtCall

\* C16 as stated: Stop is idempotent. A Stop(name, t2) of a handle whose
\* last Stop returned nil and that has not been launched since finds childWG
\* at zero and cancels nothing that was not cancelled, and it returns nil for
\* every timeout t2, zero included.
C16_StopIdempotent ==
    /\ [][\A c \in Callers :
            /\ Enters(c, "Stop")
            /\ tasks[call'[c].name] # NoTask
            /\ wrappers[tasks[call'[c].name]].stopped
            => /\ call'[c].zeroAtCall
               /\ wrappers' = wrappers]_vars
    /\ [](\A c \in Callers :
            Returning(c, "Stop") /\ Waited(c) /\ wrappers[call[c].t].stopped
                => call[c].err = ErrNil)

\* caller c is inside the body of an operation: between mu.Lock() returning
\* and the deferred mu.Unlock()
Inside(c) == call[c].pc \notin {"idle", "lock"}

\* C17: the six operations are mutually exclusive: in no reachable state are
\* two callers inside the bodies of operations, and the one that is inside
\* owns the mutex.
C17_MutualExclusion ==
    /\ \A c1, c2 \in Callers : Inside(c1) /\ Inside(c2) => c1 = c2
    /\ \A c \in Callers : Inside(c) <=> mu = c

\* one caller is between the two increments of a launch while the other is
\* blocked in mu.Lock()
C17_Witness ==
    \E c1, c2 \in Callers :
        /\ call[c1].pc = "launch"
        /\ call[c2].pc = "lock"
        /\ call[c2].op \in {"Start", "StartAll", "AddTask"}

\* wrapper h is no longer reachable through gm.tasks: its name was given to
\* another wrapper or removed
Orphan(h) == \A n \in Names : tasks[n] # h

\* C18: AddTask launches nothing, changes no counter and cancels no scope:
\* its step leaves the bodies, parentWG, the parent context and every
\* existing wrapper as they are and adds a wrapper with childWG = 0. Every
\* step of Stop(name) and RemoveTask(name) works on the wrapper the name
\* maps to now and leaves every other wrapper as it is. The scope of a
\* wrapper that is no longer in the registry is cancelled by StopAll only.
C18_AddTaskFrame ==
    [][/\ \A c \in Callers :
            Enters(c, "AddTask")
                => /\ UNCHANGED <<bodies, parentWG, parentCtx>>
                   /\ \A h \in Handles : wrappers'[h] = wrappers[h]
                   /\ Len(wrappers') = Len(wrappers) + 1
                   /\ wrappers'[Len(wrappers')].childWG = 0
                   /\ tasks'[call'[c].name] = Len(wrappers')
       /\ \A c \in Callers :
            call'[c] # call[c] /\ call'[c].op \in {"Stop", "RemoveTask"}
                => /\ call'[c].t \in {NoTask, tasks[call'[c].name]}
                   /\ \A h \in Handles :
                        h # call'[c].t => wrappers'[h] = wrappers[h]
       /\ \A h \in Handles :
            Orphan(h) /\ ~wrappers[h].childCtx /\ wrappers'[h].childCtx
                => ~parentCtx /\ parentCtx'
                     /\ \E c \in Callers : Enters(c, "StopAll")]_vars

\* Stop(name) returns nil for the wrapper registered last while a body
\* launched under the wrapper the name had before is still executing with
\* its scope not cancelled
C18_Witness ==
    \E c \in Callers :
        /\ Returning(c, "Stop")
        /\ Waited(c)
        /\ call[c].err = ErrNil
        /\ tasks[call[c].name] = call[c].t
        /\ \E h \in Handles :
            /\ h < call[c].t
            /\ Orphan(h)
            /\ ~wrappers[h].childCtx
            /\ Executing(h) # {}

\* the bodies of wrapper h in their deferred function, after childWG.Done()
DeferredOf(h) == {b \in BagToSet(bodies) : b.t = h /\ b.pc = "deferred"}

\* C19: no counter is ever negative. A childWG changes only by +1, in the
\* launch of a body of that wrapper by a caller that has already added 1 to
\* parentWG, or by -1, in the step in which one body of that same wrapper
\* returns from its task function. parentWG changes only by +1, when a
\* caller begins a launch, or by -1, when one body that has returned and
\* has run its childWG.Done() ends.
C19_PairedCounting ==
    /\ [](parentWG >= 0 /\ \A h \in Handles : wrappers[h].childWG >= 0)
    /\ [][\A h \in Handles :
            wrappers'[h].childWG # wrappers[h].childWG
            => \/ /\ wrappers'[h].childWG = wrappers[h].childWG + 1
                  /\ \E c \in Launching : call[c].t = h
                  /\ parentWG' = parentWG
                  /\ bodies' = bodies (+) SetToBag({NewBody(h)})
               \/ /\ wrappers'[h].childWG = wrappers[h].childWG - 1
                  /\ parentWG' = parentWG
                  /\ \E b \in Executing(h) :
                       /\ b.pc \in {"ctxwait", "select"}
                       /\ \E nb \in DeferredOf(h)' :
                            bodies' = Replace(b, nb)]_vars
    /\ [][parentWG' # parentWG
            => \/ /\ parentWG' = parentWG + 1
                  /\ Cardinality(Launching') = Cardinality(Launching) + 1
                  /\ UNCHANGED <<bodies, wrappers>>
               \/ /\ parentWG' = parentWG - 1
                  /\ \E b \in Deferred : bodies' = bodies (-) SetToBag({b})
                  /\ UNCHANGED wrappers]_vars

\* a body launched once has returned after its scope was cancelled and is in
\* its deferred function: its childWG is back at zero, parentWG is still 1
C19_Witness ==
    /\ parentWG = 1
    /\ BagCardinality(bodies) = 1
    /\ \E b \in Deferred :
         /\ wrappers[b.t].task = "waitNeg"
         /\ wrappers[b.t].childCtx
         /\ wrappers[b.t].childWG = 0

\* the names in gm.tasks
Registered == {n \in Names : tasks[n] # NoTask}

\* caller c takes a step of StartAll from position pc
StartAllStep(c, pc) ==
    /\ call[c].op = "StartAll"
    /\ call[c].pc = pc
    /\ call'[c] # call[c]

\* C20: StartAll launches exactly one body per registered handle, each with
\* its own handle's scope, whatever the handle's state. It begins with every
\* registered name to do and returns only when none is left; each turn of
\* the loop takes one name off, adds 1 to parentWG, adds 1 to the childWG of
\* the wrapper of that name and to no other, and launches one body that runs
\* with that wrapper; the registry does not change meanwhile.
C20_StartAllLaunchesEach ==
    /\ [](\A c \in Callers :
            call[c].op = "StartAll" /\ Inside(c)
                => /\ call[c].todo \subseteq Registered
                   /\ call[c].pc = "unlock" => call[c].todo = {})
    /\ [][\A c \in Callers :
            /\ Enters(c, "StartAll")
                => /\ call'[c].todo = Registered
                   /\ UNCHANGED <<parentWG, parentCtx, tasks, wrappers, bodies>>
            /\ StartAllStep(c, "range")
                => /\ \E n \in call[c].todo :
                        /\ call'[c].todo = call[c].todo \ {n}
                        /\ call'[c].t = tasks[n]
                   /\ call'[c].pc = "launch"
                   /\ parentWG' = parentWG + 1
                   /\ UNCHANGED <<parentCtx, tasks, wrappers, bodies>>
            /\ StartAllStep(c, "launch")
                => /\ bodies' = bodies (+) SetToBag({NewBody(call[c].t)})
                   /\ \A h \in Handles :
                        /\ wrappers'[h].childWG = wrappers[h].childWG
                             + (IF h = call[c].t THEN 1 ELSE 0)
                        /\ wrappers'[h].childCtx = wrappers[h].childCtx
                   /\ call'[c].todo = call[c].todo
                   /\ UNCHANGED <<parentWG, parentCtx, tasks>>]_vars

\* StartAll returns on a registry of two handles: two bodies, one per
\* handle, parentWG = 2 and each childWG = 1
C20_Witness ==
    \E c \in Callers :
        /\ Returning(c, "StartAll")
        /\ Registered = Names
        /\ parentWG = 2
        /\ \A n \in Names :
             /\ wrappers[tasks[n]].childWG = 1
             /\ CountBodies(Executing(tasks[n])) = 1

\* C21: Start(name) on a registered wrapper is never refused, whether its
\* context is already cancelled or bodies of it are already running: it adds
\* 1 to parentWG, then adds 1 to the wrapper's childWG, launches one more
\* body of that wrapper with the context as it is, and returns nil.
C21_StartOnCancelled ==
    [][\A c \in Callers :
        /\ Enters(c, "Start") /\ tasks[call'[c].name] # NoTask
            => /\ call'[c].pc = "launch"
               /\ call'[c].t = tasks[call'[c].name]
               /\ parentWG' = parentWG + 1
               /\ UNCHANGED <<parentCtx, tasks, wrappers, bodies>>
        /\ call[c].op = "Start" /\ call[c].pc = "launch" /\ call'[c] # call[c]
            => /\ call'[c].pc = "unlock"
               /\ call'[c].err = ErrNil
               /\ bodies' = bodies (+) SetToBag({NewBody(call[c].t)})
               /\ \A h \in Handles :
                    /\ wrappers'[h].childWG = wrappers[h].childWG
                         + (IF h = call[c].t THEN 1 ELSE 0)
                    /\ wrappers'[h].childCtx = wrappers[h].childCtx
               /\ UNCHANGED <<parentWG, parentCtx, tasks>>]_vars

\* Start returns nil for a wrapper whose context was cancelled before and
\* of which a body was already running: childWG is 2
C21_Witness ==
    \E c \in Callers :
        /\ Returning(c, "Start")
        /\ call[c].err = ErrNil
        /\ tasks[call[c].name] = call[c].t
        /\ wrappers[call[c].t].childCtx
        /\ wrappers[call[c].t].childWG = 2
        /\ \E b \in Executing(call[c].t) : b.pc # "spawned"

\* C22: the manager cannot be restarted after StopAll. Once StopAll has run
\* parentCancel, whatever it returns, the parent context stays cancelled and
\* every wrapper, those AddTask creates later included, has a cancelled
\* context; no step makes a cancelled context uncancelled; every body that
\* calls its task function from then on finds ctx.Done() closed at its first
\* check.
C22_NoRestart ==
    /\ [](parentCtx => \A h \in Handles : wrappers[h].childCtx)
    /\ [][/\ parentCtx => parentCtx'
          /\ \A h \in Handles : wrappers[h].childCtx => wrappers'[h].childCtx
          /\ parentCtx =>
               \A nb \in BagToSet(bodies') :
                    /\ nb.pc \in {"ctxwait", "select"}
                    /\ CopiesIn(nb, bodies') > CopiesIn(nb, bodies)
                    => nb.doneAtCall]_vars

\* AddTask returns after StopAll: the wrapper it has just created is
\* cancelled
C22_Witness ==
    \E c \in Callers :
        /\ Returning(c, "AddTask")
        /\ parentCtx
        /\ tasks[call[c].name] = Len(wrappers)
        /\ wrappers[Len(wrappers)].childCtx

\* the bodies counted in the wait group caller c waits on
Awaited(c) ==
    {b \in BagToSet(bodies) :
        WaitTarget(c) = ParentWGId \/ b.t = WaitTarget(c)}

\* C23 as stated: the manager is deadlock-free when bodies call manager
\* operations: in no reachable state is a caller blocked in the wait of Stop,
\* StopAll or RemoveTask with a negative timeout for a body that is itself
\* blocked in mu.Lock() of a manager operation.
C23_NoLockCycle ==
    \A c \in Callers :
        call[c].pc = "wgwait" /\ call[c].op \in WaitOps
            => ~ \E b \in Awaited(c) : b.pc = "locking" /\ mu # NoCaller

\* C24: WaitGroupWithTimeout(nil, d) returns WaitInvalidParam in its first
\* step for every d, without blocking and without a watcher or anything
\* else changing; a call with a nil wg is never in wg.Wait() or the select.
\* Stop, StopAll and RemoveTask pass &t.childWG or &gm.parentWG and never
\* get WaitInvalidParam: whenever they return a non-nil error their wait
\* returned WaitTimeout.
C24_NilWaitGroup ==
    /\ [][\A c \in Callers :
            call[c].pc = "idle" /\ call'[c].op = "WaitGroupWithTimeout"
                => /\ call'[c].t = NilWG
                   /\ call'[c].pc = "wgret"
                   /\ call'[c].wres = WaitInvalidParam
                   /\ call'[c].done = "none"
                   /\ UNCHANGED <<mu, parentWG, parentCtx, tasks, wrappers,
                                  bodies, leaked>>]_vars
    /\ [](\A c \in Callers :
            /\ call[c].t = NilWG => call[c].pc \in {"wgret", "idle"}
            /\ call[c].op \in WaitOps
                => /\ call[c].pc # "wgret"
                   /\ call[c].wres # WaitInvalidParam
                   /\ call[c].pc \in {"wgwait", "select"}
                        => WaitTarget(c) # NilWG
                   /\ call[c].pc = "unlock" /\ call[c].err # ErrNil
                        => Waited(c) /\ call[c].wres = WaitTimeout)

\* WaitGroupWithTimeout(nil, -1) has returned WaitInvalidParam while Stop
\* returns the timeout error of a wait that timed out
C24_Witness ==
    \E c1, c2 \in Callers :
        /\ call[c1].pc = "wgret"
        /\ call[c1].timeout < 0
        /\ call[c1].wres = WaitInvalidParam
        /\ Returning(c2, "Stop")
        /\ call[c2].err = ErrTimeout

\* the value of key in the file parses as an integer within [lo, hi]
InRange(key, lo, hi) ==
    /\ key \in DOMAIN config
    /\ Atoi(config[key]).err = "nil"
    /\ Atoi(config[key]).value >= lo
    /\ Atoi(config[key]).value <= hi

\* what the claim says the field of key holds after LoadConfig
Applied(key, lo, hi, default) ==
    IF InRange(key, lo, hi) THEN Atoi(config[key]).value ELSE default

\* C25 as stated: after LoadConfig has returned nil, each of MaxLogFileSize,
\* MaxLogFileBackup and MaxLogFileAge holds the value of its key when that
\* parses as an integer within [1,1000], [1,100], [1,365], and its default
\* (100, 10, 90) when the value does not parse or is out of range.
C25_LoadConfigApplies ==
    config # ParseFailed =>
        /\ Conf.MaxLogFileSize = Applied("MaxLogFileSize", 1, 1000, 100)
        /\ Conf.MaxLogFileBackup = Applied("MaxLogFileBackup", 1, 100, 10)
        /\ Conf.MaxLogFileAge = Applied("MaxLogFileAge", 1, 365, 90)

\* the wait groups that have had a watcher
WaitGroups == DOMAIN leaked

\* C26: a watcher left behind by a timed-out wait never blocks on signalling:
\* whenever the counter of its wait group is zero it can close done and
\* end, with nobody receiving. No watcher ends while the counter is not
\* zero, and watchers end one at a time. A wait that times out while the
\* counter is not zero leaves exactly one more watcher on that wait group,
\* so there are as many as there were such calls.
C26_WatcherEnds ==
    /\ [](\A w \in WaitGroups :
            leaked[w] > 0 /\ Counter(w) = 0 => ENABLED WatcherExit(w))
    /\ [][\A w \in WaitGroups :
            leaked'[w] < leaked[w]
                => Counter(w) = 0 /\ leaked'[w] = leaked[w] - 1]_vars
    /\ [][\A c \in Callers :
            /\ call[c].pc = "select"
            /\ call'[c].pc = "unlock"
            /\ call'[c].wres = WaitTimeout
            /\ Counter(WaitTarget(c)) # 0
            => /\ leaked'[WaitTarget(c)] = leaked[WaitTarget(c)] + 1
               /\ \A w \in WaitGroups \ {WaitTarget(c)} :
                    leaked'[w] = leaked[w]]_vars

\* two timed-out calls have each left a watcher behind: both are blocked on
\* the wait group of a body that keeps running
C26_Witness ==
    \E h \in Handles :
        /\ leaked[h] = 2
        /\ wrappers[h].childWG = 1
        /\ \E b \in Executing(h) : b.pc = "stuck"

====
